---------------------------- MODULE Spec2Model ----------------------------
(***************************************************************************)
(* Blogicum: the request handlers of blogicum/blog/views.py over the store *)
(* of users, categories, posts and comments.                               *)
(*                                                                         *)
(* A handler is an operator from the current store and the request's       *)
(* inputs to an outcome: the response and the store the handler leaves.    *)
(* The action of a handler applies its outcome.                            *)
(***************************************************************************)
EXTENDS Integers, Sequences, FiniteSets, TLC

VARIABLES
    posts,      \* Post rows: pk -> [author, is_published, category, pub_date]
    comments,   \* Comment rows: pk -> [author, post, text]
    users,      \* User rows: pk -> username
    categories, \* Category rows: pk -> is_published
    now,        \* timezone.now()
    nextPost,   \* next Post pk the database hands out
    nextComment,\* next Comment pk the database hands out
    response,   \* the last response, with the view it comes from
    queryset,   \* the ordered sequence handed to paginate_queryset (SpecPage)
    page_number,\* request.GET.get("page") of that request (SpecPage)
    inflight,   \* requests between their load step and their write step (SpecRace)
    deleted     \* Comment pks whose delete step has completed (SpecRace)

vars == <<posts, comments, users, categories, now, nextPost, nextComment,
          response, queryset, page_number, inflight, deleted>>

---------------------------------------------------------------------------
(* Bounds of the model *)

MaxPosts == 1
MaxComments == 1
MaxTime == 1
MaxItems == 21
MaxParamLen == 2
MaxRequests == 2

(* Program constant *)
POSTS_PER_PAGE == 10

---------------------------------------------------------------------------
(* Values *)

Users == {"u1", "u2"}
Anonymous == "anon"
Requesters == Users \cup {Anonymous}
Usernames == {"alice", "bob", "carol"}
CategoryIds == {"c1", "c2"}
NoCategory == "null"
BadDate == -1
Texts == {"a", "b"}
EmptyText == ""
Methods == {"GET", "POST"}

is_authenticated(u) == u \in Users

Max(a, b) == IF a >= b THEN a ELSE b

---------------------------------------------------------------------------
(* Responses *)

BlankResponse ==
    [view |-> "",        \* the view that answered
     kind |-> "none",    \* render, redirect, notfound
     name |-> "",        \* the template rendered or the URL name redirected to
     post_id |-> 0,      \* the post of the page, of the redirect or of the 404
     username |-> "",    \* the user of the profile page or redirect
     items |-> <<>>,     \* page_obj.object_list
     number |-> 0,       \* page_obj.number
     num_pages |-> 0]    \* page_obj.paginator.num_pages

render(template) ==
    [BlankResponse EXCEPT !.kind = "render", !.name = template]

render_page(template, page_obj) ==
    [BlankResponse EXCEPT !.kind = "render", !.name = template,
                          !.items = page_obj.object_list,
                          !.number = page_obj.number,
                          !.num_pages = page_obj.num_pages]

render_post(template, pid) ==
    [BlankResponse EXCEPT !.kind = "render", !.name = template, !.post_id = pid]

redirect_post_detail(pid) ==
    [BlankResponse EXCEPT !.kind = "redirect", !.name = "blog:post_detail",
                          !.post_id = pid]

redirect_profile(username) ==
    [BlankResponse EXCEPT !.kind = "redirect", !.name = "blog:profile",
                          !.username = username]

redirect_to_login ==
    [BlankResponse EXCEPT !.kind = "redirect", !.name = "login"]

Http404 ==
    [BlankResponse EXCEPT !.kind = "notfound", !.name = "pages/404.html"]

\* the 404 of a Post lookup, with the pk that was looked up
PostNotFound(pid) == [Http404 EXCEPT !.post_id = pid]

Answer(view, resp) == [resp EXCEPT !.view = view]

---------------------------------------------------------------------------
(* Pagination: Paginator(queryset, per_page).get_page(request.GET.get("page")) *)

Digits == {"0", "1", "2", "3", "4", "5", "6", "7", "8", "9"}

DigitValue(c) ==
    CASE c = "0" -> 0 [] c = "1" -> 1 [] c = "2" -> 2 [] c = "3" -> 3
      [] c = "4" -> 4 [] c = "5" -> 5 [] c = "6" -> 6 [] c = "7" -> 7
      [] c = "8" -> 8 [] c = "9" -> 9

RECURSIVE DecimalValue(_)
DecimalValue(s) ==
    IF s = <<>> THEN 0
    ELSE 10 * DecimalValue(SubSeq(s, 1, Len(s) - 1)) + DigitValue(s[Len(s)])

AllDigits(s) == Len(s) >= 1 /\ \A i \in 1..Len(s) : s[i] \in Digits

\* int(number): [ok, value]; not ok stands for TypeError / ValueError.
\* A query value is [present, text]; a missing parameter is None.
ParseInt(param) ==
    IF ~param.present THEN [ok |-> FALSE, value |-> 0]
    ELSE LET s == param.text IN
         IF AllDigits(s) THEN [ok |-> TRUE, value |-> DecimalValue(s)]
         ELSE IF Len(s) >= 2 /\ s[1] = "-" /\ AllDigits(Tail(s))
              THEN [ok |-> TRUE, value |-> 0 - DecimalValue(Tail(s))]
         ELSE IF Len(s) >= 2 /\ s[1] = "+" /\ AllDigits(Tail(s))
              THEN [ok |-> TRUE, value |-> DecimalValue(Tail(s))]
         ELSE [ok |-> FALSE, value |-> 0]

\* Paginator.num_pages with orphans = 0 and allow_empty_first_page = True
NumPages(count, per_page) ==
    Max(1, (count + per_page - 1) \div per_page)

\* Mutant: a number below 1 taken to the first page
GetPageNumber_clamped(param, count, per_page) ==
    LET n == ParseInt(param)
        last == NumPages(count, per_page)
    IN  IF ~n.ok THEN 1
        ELSE IF n.value < 1 THEN 1
        ELSE IF n.value > last THEN last
        ELSE n.value

\* Paginator.get_page: PageNotAnInteger -> 1, EmptyPage -> num_pages
GetPageNumber(param, count, per_page) ==
    LET n == ParseInt(param)
        last == NumPages(count, per_page)
    IN  IF ~n.ok THEN 1
        ELSE IF n.value < 1 THEN last
        ELSE IF n.value > last THEN last
        ELSE n.value

\* Paginator.page(number): object_list[bottom:top]
PageSlice(seq, number, per_page) ==
    LET bottom == (number - 1) * per_page
        top == IF bottom + per_page >= Len(seq) THEN Len(seq)
               ELSE bottom + per_page
    IN  SubSeq(seq, bottom + 1, top)

paginate_queryset(param, seq, per_page) ==
    LET number == GetPageNumber(param, Len(seq), per_page)
    IN  [object_list |-> PageSlice(seq, number, per_page),
         number |-> number,
         num_pages |-> NumPages(Len(seq), per_page)]

NoPage == [present |-> FALSE, text |-> <<>>]
PageParam(s) == [present |-> TRUE, text |-> s]

\* the elements of a sequence
RECURSIVE Range(_)
Range(seq) == IF seq = <<>> THEN {} ELSE {Head(seq)} \cup Range(Tail(seq))

---------------------------------------------------------------------------
(* Querysets: sets of Post pks *)

AllPosts == DOMAIN posts

\* Mutant: the filter without pub_date__lte=timezone.now()
filter_published_posts_any_date(qs) ==
    { p \in qs :
        /\ posts[p].is_published
        /\ \E c \in DOMAIN categories :
              c = posts[p].category /\ categories[c] }

\* Mutant: the category condition applied only to a post that has a category
filter_published_posts_category_if_any(qs) ==
    { p \in qs :
        /\ posts[p].is_published
        /\ \/ posts[p].category = NoCategory
           \/ \E c \in DOMAIN categories :
                 c = posts[p].category /\ categories[c]
        /\ posts[p].pub_date <= now }

\* queryset.filter(is_published=True, category__is_published=True,
\*                 pub_date__lte=timezone.now())
\* category__is_published joins the Category row of the post: a post whose
\* category is NULL has no such row.
filter_published_posts(qs) ==
    { p \in qs :
        /\ posts[p].is_published
        /\ \E c \in DOMAIN categories :
              c = posts[p].category /\ categories[c]
        /\ posts[p].pub_date <= now }

filter_author(qs, u) == { p \in qs : posts[p].author = u }

filter_category(qs, c) == { p \in qs : posts[p].category = c }

\* order_by("-pub_date"); rows of equal pub_date come in pk order here (the
\* code leaves their order to the database).
ComesFirst(p, q) ==
    \/ posts[p].pub_date > posts[q].pub_date
    \/ posts[p].pub_date = posts[q].pub_date /\ p <= q

RECURSIVE order_by_pub_date_desc(_)
order_by_pub_date_desc(qs) ==
    IF qs = {} THEN <<>>
    ELSE LET first == CHOOSE p \in qs : \A q \in qs : ComesFirst(p, q)
         IN  <<first>> \o order_by_pub_date_desc(qs \ {first})

\* Count("comments")
comment_count(p) == Cardinality({ c \in DOMAIN comments : comments[c].post = p })

annotate_posts_with_comment_count(seq) ==
    [i \in 1..Len(seq) |-> [pk |-> seq[i], comment_count |-> comment_count(seq[i])]]

Pks(items) == { x.pk : x \in Range(items) }

post_list(qs) == annotate_posts_with_comment_count(order_by_pub_date_desc(qs))

---------------------------------------------------------------------------
(* Read views *)

index(page) ==
    render_page("blog/index.html",
        paginate_queryset(page, post_list(filter_published_posts(AllPosts)),
                          POSTS_PER_PAGE))

\* Mutant: the visibility filter applied to the author too
post_detail_filtered_for_all(u, post_id) ==
    IF post_id \notin filter_published_posts(AllPosts)
    THEN PostNotFound(post_id)
    ELSE render_post("blog/detail.html", post_id)

post_detail(u, post_id) ==
    IF post_id \notin DOMAIN posts THEN PostNotFound(post_id)
    ELSE IF u # posts[post_id].author
            /\ post_id \notin filter_published_posts(AllPosts)
         THEN PostNotFound(post_id)
    ELSE render_post("blog/detail.html", post_id)

category_posts(slug, page) ==
    IF ~(slug \in DOMAIN categories /\ categories[slug]) THEN Http404
    ELSE render_page("blog/category.html",
            paginate_queryset(page,
                post_list(filter_published_posts(filter_category(AllPosts, slug))),
                POSTS_PER_PAGE))

UserByUsername(username) == { u \in DOMAIN users : users[u] = username }

\* Mutant: every post of the author, whoever asks
profile_posts_unfiltered(u, profile_user) ==
    filter_author(AllPosts, profile_user)

profile_posts(u, profile_user) ==
    IF u = profile_user THEN filter_author(AllPosts, profile_user)
    ELSE filter_published_posts(filter_author(AllPosts, profile_user))

profile(u, username, page) ==
    IF UserByUsername(username) = {} THEN Http404
    ELSE LET profile_user == CHOOSE x \in UserByUsername(username) : TRUE
         IN  [render_page("blog/profile.html",
                paginate_queryset(page, post_list(profile_posts(u, profile_user)),
                                  POSTS_PER_PAGE))
              EXCEPT !.username = username]

---------------------------------------------------------------------------
(* Outcomes of the handlers that may write *)

Outcome(resp, ps, cs, us, np, nc) ==
    [response |-> resp, posts |-> ps, comments |-> cs, users |-> us,
     nextPost |-> np, nextComment |-> nc]

\* the handler answers and writes nothing
Unchanged(resp) == Outcome(resp, posts, comments, users, nextPost, nextComment)

Drop(f, k) == [x \in (DOMAIN f) \ {k} |-> f[x]]

Put(f, k, v) == [x \in (DOMAIN f) \cup {k} |-> IF x = k THEN v ELSE f[x]]

\* Post.category is optional; the form offers every category and the empty choice
PostCategoryChoices == CategoryIds \cup {NoCategory}

\* PostForm: every field of Post but the author; pub_date is parsed with the
\* one input format "%Y-%m-%dT%H:%M", BadDate is an input that does not parse
\* the dates the requests submit: the earliest time and the latest
DateInputs == {0, MaxTime}

PostForms ==
    [is_published : BOOLEAN, category : PostCategoryChoices,
     pub_date : DateInputs]
       \cup {[is_published |-> TRUE, category |-> "c1", pub_date |-> BadDate]}

\* a GET carries no form data
NoData == [is_published |-> FALSE, category |-> NoCategory, pub_date |-> BadDate]

PostData(method, forms) == IF method = "POST" THEN forms ELSE {NoData}

PostForm_is_valid(form) == form.pub_date # BadDate

PostRow(author, form) ==
    [author |-> author, is_published |-> form.is_published,
     category |-> form.category, pub_date |-> form.pub_date]

\* CommentForm: fields = ("text",); a GET carries no POST data
CommentForm_is_valid(method, text) == method = "POST" /\ text # EmptyText

\* UserUpdateForm: username is required and unique among the other users
UserUpdateForm_is_valid(u, username) ==
    /\ username # ""
    /\ \A other \in (DOMAIN users) \ {u} : users[other] # username

\* Comment.post: the comments of a deleted post go with it
CascadeComments(pid) ==
    [c \in { x \in DOMAIN comments : comments[x].post # pid } |-> comments[c]]

PostCreateView(u, method, form) ==
    IF ~is_authenticated(u) THEN Unchanged(redirect_to_login)
    ELSE IF method = "POST" /\ PostForm_is_valid(form)
         THEN Outcome(redirect_profile(users[u]),
                      Put(posts, nextPost, PostRow(u, form)),
                      comments, users, nextPost + 1, nextComment)
    ELSE Unchanged(render("blog/create.html"))

PostUpdateView(u, method, post_id, form) ==
    IF post_id \notin DOMAIN posts THEN Unchanged(PostNotFound(post_id))
    ELSE IF posts[post_id].author # u
         THEN Unchanged(redirect_post_detail(post_id))
    ELSE IF ~is_authenticated(u) THEN Unchanged(redirect_to_login)
    ELSE IF method = "POST" /\ PostForm_is_valid(form)
         THEN Outcome(redirect_post_detail(post_id),
                      Put(posts, post_id, PostRow(posts[post_id].author, form)),
                      comments, users, nextPost, nextComment)
    ELSE Unchanged(render_post("blog/create.html", post_id))

PostDeleteView(u, method, post_id) ==
    IF post_id \notin DOMAIN posts THEN Unchanged(PostNotFound(post_id))
    ELSE IF posts[post_id].author # u
         THEN Unchanged(redirect_post_detail(post_id))
    ELSE IF ~is_authenticated(u) THEN Unchanged(redirect_to_login)
    ELSE IF method = "POST"
         THEN Outcome(redirect_profile(users[u]),
                      Drop(posts, post_id), CascadeComments(post_id),
                      users, nextPost, nextComment)
    ELSE Unchanged(render_post("blog/create.html", post_id))

\* Mutant: add_comment without @login_required
add_comment_no_login(u, method, post_id, text) ==
    IF post_id \notin DOMAIN posts THEN Unchanged(PostNotFound(post_id))
    ELSE IF CommentForm_is_valid(method, text)
         THEN Outcome(redirect_post_detail(post_id), posts,
                      Put(comments, nextComment,
                          [author |-> u, post |-> post_id, text |-> text]),
                      users, nextPost, nextComment + 1)
    ELSE Unchanged(redirect_post_detail(post_id))

add_comment(u, method, post_id, text) ==
    IF ~is_authenticated(u) THEN Unchanged(redirect_to_login)
    ELSE IF post_id \notin DOMAIN posts THEN Unchanged(PostNotFound(post_id))
    ELSE IF CommentForm_is_valid(method, text)
         THEN Outcome(redirect_post_detail(post_id), posts,
                      Put(comments, nextComment,
                          [author |-> u, post |-> post_id, text |-> text]),
                      users, nextPost, nextComment + 1)
    ELSE Unchanged(redirect_post_detail(post_id))

\* Mutant: a redirect whatever the outcome, the form page is never rendered
edit_comment_always_redirects(u, method, post_id, comment_id, text) ==
    IF ~is_authenticated(u) THEN Unchanged(redirect_to_login)
    ELSE IF comment_id \notin DOMAIN comments THEN Unchanged(Http404)
    ELSE IF comments[comment_id].author # u
         THEN Unchanged(redirect_post_detail(post_id))
    ELSE IF CommentForm_is_valid(method, text)
         THEN Outcome(redirect_post_detail(post_id), posts,
                      Put(comments, comment_id,
                          [comments[comment_id] EXCEPT !.text = text]),
                      users, nextPost, nextComment)
    ELSE Unchanged(redirect_post_detail(post_id))

edit_comment(u, method, post_id, comment_id, text) ==
    IF ~is_authenticated(u) THEN Unchanged(redirect_to_login)
    ELSE IF comment_id \notin DOMAIN comments THEN Unchanged(Http404)
    ELSE IF comments[comment_id].author # u
         THEN Unchanged(redirect_post_detail(post_id))
    ELSE IF CommentForm_is_valid(method, text)
         THEN Outcome(redirect_post_detail(post_id), posts,
                      Put(comments, comment_id,
                          [comments[comment_id] EXCEPT !.text = text]),
                      users, nextPost, nextComment)
    ELSE Unchanged(render("blog/comment.html"))

\* Mutant: delete_comment without the comparison of the author
delete_comment_no_author_check(u, method, post_id, comment_id) ==
    IF ~is_authenticated(u) THEN Unchanged(redirect_to_login)
    ELSE IF comment_id \notin DOMAIN comments THEN Unchanged(Http404)
    ELSE IF method = "POST"
         THEN Outcome(redirect_post_detail(post_id), posts,
                      Drop(comments, comment_id), users, nextPost, nextComment)
    ELSE Unchanged(render("blog/comment.html"))

delete_comment(u, method, post_id, comment_id) ==
    IF ~is_authenticated(u) THEN Unchanged(redirect_to_login)
    ELSE IF comment_id \notin DOMAIN comments THEN Unchanged(Http404)
    ELSE IF comments[comment_id].author # u
         THEN Unchanged(redirect_post_detail(post_id))
    ELSE IF method = "POST"
         THEN Outcome(redirect_post_detail(post_id), posts,
                      Drop(comments, comment_id), users, nextPost, nextComment)
    ELSE Unchanged(render("blog/comment.html"))

edit_profile(u, method, username) ==
    IF ~is_authenticated(u) THEN Unchanged(redirect_to_login)
    ELSE IF method = "POST" /\ UserUpdateForm_is_valid(u, username)
         THEN Outcome(redirect_profile(username), posts, comments,
                      [users EXCEPT ![u] = username], nextPost, nextComment)
    ELSE Unchanged(render("blog/user.html"))

---------------------------------------------------------------------------
(* Actions: one request, handled whole *)

PostIdInputs == 1..(MaxPosts + 1)
CommentIdInputs == 1..(MaxComments + 1)
ListingPages == {NoPage, PageParam(<<"2">>)}
TextInputs == Texts \cup {EmptyText}
\* the usernames the requests submit: a user's own, another user's, none
UsernameInputs == {"alice", "bob", ""}

\* a GET carries no form data
CommentData(method) == IF method = "POST" THEN TextInputs ELSE {EmptyText}

\* the forms of the requests of SpecAuth: one that validates, one that does not
AuthForms ==
    { f \in PostForms : f.is_published /\ f.category = "c1"
                          /\ f.pub_date \in {0, BadDate} }

Apply(view, out) ==
    /\ out.nextPost <= MaxPosts + 1
    /\ out.nextComment <= MaxComments + 1
    /\ posts' = out.posts
    /\ comments' = out.comments
    /\ users' = out.users
    /\ nextPost' = out.nextPost
    /\ nextComment' = out.nextComment
    /\ response' = Answer(view, out.response)
    /\ UNCHANGED <<categories, now, queryset, page_number, inflight, deleted>>

Respond(view, resp) ==
    /\ response' = Answer(view, resp)
    /\ UNCHANGED <<posts, comments, users, categories, now, nextPost,
                   nextComment, queryset, page_number, inflight, deleted>>

Tick ==
    /\ now < MaxTime
    /\ now' = now + 1
    /\ UNCHANGED <<posts, comments, users, categories, nextPost, nextComment,
                   response, queryset, page_number, inflight, deleted>>

GetIndex ==
    \E u \in Requesters, page \in ListingPages :
        Respond("index", index(page))

GetPostDetail ==
    \E u \in Requesters, post_id \in PostIdInputs :
        Respond("post_detail", post_detail(u, post_id))

GetProfile ==
    \E u \in Requesters, username \in Usernames, page \in ListingPages :
        Respond("profile", profile(u, username, page))

CreatePost(forms) ==
    \E u \in Requesters, method \in Methods :
      \E form \in PostData(method, forms) :
        Apply("PostCreateView", PostCreateView(u, method, form))

UpdatePost(forms) ==
    \E u \in Requesters, method \in Methods, post_id \in PostIdInputs :
      \E form \in PostData(method, forms) :
        Apply("PostUpdateView", PostUpdateView(u, method, post_id, form))

DeletePost ==
    \E u \in Requesters, method \in Methods, post_id \in PostIdInputs :
        Apply("PostDeleteView", PostDeleteView(u, method, post_id))

AddComment ==
    \E u \in Requesters, method \in Methods, post_id \in PostIdInputs :
      \E text \in CommentData(method) :
        Apply("add_comment", add_comment(u, method, post_id, text))

EditComment ==
    \E u \in Requesters, method \in Methods, post_id \in PostIdInputs,
       comment_id \in CommentIdInputs :
      \E text \in CommentData(method) :
        Apply("edit_comment",
              edit_comment(u, method, post_id, comment_id, text))

DeleteComment ==
    \E u \in Requesters, method \in Methods, post_id \in PostIdInputs,
       comment_id \in CommentIdInputs :
        Apply("delete_comment",
              delete_comment(u, method, post_id, comment_id))

EditProfile ==
    \E u \in Requesters, method \in Methods, username \in UsernameInputs :
        Apply("edit_profile", edit_profile(u, method, username))

---------------------------------------------------------------------------
(* The state after the site is set up: two users, one published and one    *)
(* unpublished category, no posts, no comments                             *)

InitStore ==
    /\ posts = << >>
    /\ comments = << >>
    /\ users = [u \in Users |-> IF u = "u1" THEN "alice" ELSE "bob"]
    /\ categories = [c \in CategoryIds |-> c = "c1"]
    /\ now = 0
    /\ nextPost = 1
    /\ nextComment = 1
    /\ response = BlankResponse

Init ==
    /\ InitStore
    /\ queryset = << >>
    /\ page_number = NoPage
    /\ inflight = << >>
    /\ deleted = {}

\* Posts, the clock and the pages that list posts
Next ==
    \/ Tick
    \/ CreatePost(PostForms)
    \/ UpdatePost(PostForms)
    \/ DeletePost
    \/ GetIndex
    \/ GetPostDetail
    \/ GetProfile

Spec == Init /\ [][Next]_vars

\* Every handler that may write, for every requester
NextAuth ==
    \/ CreatePost(AuthForms)
    \/ UpdatePost(AuthForms)
    \/ DeletePost
    \/ AddComment
    \/ EditComment
    \/ DeleteComment
    \/ EditProfile

SpecAuth == Init /\ [][NextAuth]_vars

---------------------------------------------------------------------------
(* paginate_queryset alone: a request with any page parameter over an      *)
(* ordered sequence of any length                                          *)

PageChars == {"-", "0", "1", "2", "3", "9", "x"}

RECURSIVE Strings(_)
Strings(n) ==
    IF n = 0 THEN {<<>>}
    ELSE LET shorter == Strings(n - 1)
         IN  shorter \cup { Append(t, c) : t \in shorter, c \in PageChars }

PageParams == {NoPage} \cup { PageParam(t) : t \in Strings(MaxParamLen) }

Querysets == { [i \in 1..n |-> i] : n \in 0..MaxItems }

InitPage ==
    /\ InitStore
    /\ queryset \in Querysets
    /\ page_number \in PageParams
    /\ inflight = << >>
    /\ deleted = {}

Paginate ==
    /\ response = BlankResponse
    /\ response' = Answer("paginate_queryset",
                     render_page("", paginate_queryset(page_number, queryset,
                                                       POSTS_PER_PAGE)))
    /\ UNCHANGED <<posts, comments, users, categories, now, nextPost,
                   nextComment, queryset, page_number, inflight, deleted>>

NextPage == Paginate

SpecPage == InitPage /\ [][NextPage]_vars

---------------------------------------------------------------------------
(* edit_comment and delete_comment step by step: the load of the comment   *)
(* (get_object_or_404 and the checks on the loaded object) and the write   *)
(* (form.save(), comment.delete()) are two database operations, and other  *)
(* requests run between them                                               *)

Slots == 1..MaxRequests

Instance(comment_id) ==
    [pk |-> comment_id, author |-> comments[comment_id].author,
     post |-> comments[comment_id].post, text |-> comments[comment_id].text]

Row(instance) ==
    [author |-> instance.author, post |-> instance.post, text |-> instance.text]

\* Model.save() of a loaded instance: UPDATE the row of its pk and, when no
\* row was updated, INSERT it
Model_save(instance) == Put(comments, instance.pk, Row(instance))

\* Model.delete(): DELETE the row of its pk, if it is there
Model_delete(instance) == Drop(comments, instance.pk)

RaceFrame ==
    UNCHANGED <<posts, users, categories, now, nextPost, nextComment,
                queryset, page_number>>

\* lines 211-218: load, author check, form validation
EditCommentLoad(slot, u, post_id, comment_id, text) ==
    /\ slot \notin DOMAIN inflight
    /\ RaceFrame
    /\ UNCHANGED <<comments, deleted>>
    /\ IF comment_id \notin DOMAIN comments
       THEN /\ response' = Answer("edit_comment", Http404)
            /\ UNCHANGED inflight
       ELSE IF comments[comment_id].author # u
       THEN /\ response' = Answer("edit_comment", redirect_post_detail(post_id))
            /\ UNCHANGED inflight
       ELSE IF ~CommentForm_is_valid("POST", text)
       THEN /\ response' = Answer("edit_comment", render("blog/comment.html"))
            /\ UNCHANGED inflight
       ELSE /\ inflight' = Put(inflight, slot,
                 [view |-> "edit_comment", post_id |-> post_id,
                  instance |-> [Instance(comment_id) EXCEPT !.text = text]])
            /\ UNCHANGED response

\* lines 219-220: form.save() and the redirect
EditCommentSave(slot) ==
    /\ slot \in DOMAIN inflight
    /\ inflight[slot].view = "edit_comment"
    /\ comments' = Model_save(inflight[slot].instance)
    /\ inflight' = Drop(inflight, slot)
    /\ response' = Answer("edit_comment",
                          redirect_post_detail(inflight[slot].post_id))
    /\ RaceFrame
    /\ UNCHANGED deleted

\* lines 232-237: load, author check
DeleteCommentLoad(slot, u, post_id, comment_id) ==
    /\ slot \notin DOMAIN inflight
    /\ RaceFrame
    /\ UNCHANGED <<comments, deleted>>
    /\ IF comment_id \notin DOMAIN comments
       THEN /\ response' = Answer("delete_comment", Http404)
            /\ UNCHANGED inflight
       ELSE IF comments[comment_id].author # u
       THEN /\ response' = Answer("delete_comment",
                                  redirect_post_detail(post_id))
            /\ UNCHANGED inflight
       ELSE /\ inflight' = Put(inflight, slot,
                 [view |-> "delete_comment", post_id |-> post_id,
                  instance |-> Instance(comment_id)])
            /\ UNCHANGED response

\* lines 238-239: comment.delete() and the redirect
DeleteCommentWrite(slot) ==
    /\ slot \in DOMAIN inflight
    /\ inflight[slot].view = "delete_comment"
    /\ comments' = Model_delete(inflight[slot].instance)
    /\ deleted' = deleted \cup {inflight[slot].instance.pk}
    /\ inflight' = Drop(inflight, slot)
    /\ response' = Answer("delete_comment",
                          redirect_post_detail(inflight[slot].post_id))
    /\ RaceFrame

\* one post of u1 with MaxComments comments of u1 on it
InitRace ==
    /\ posts = [p \in {1} |-> [author |-> "u1", is_published |-> TRUE,
                               category |-> "c1", pub_date |-> 0]]
    /\ comments = [c \in 1..MaxComments |->
                     [author |-> "u1", post |-> 1, text |-> "a"]]
    /\ users = [u \in Users |-> IF u = "u1" THEN "alice" ELSE "bob"]
    /\ categories = [c \in CategoryIds |-> c = "c1"]
    /\ now = 0
    /\ nextPost = 2
    /\ nextComment = MaxComments + 1
    /\ response = BlankResponse
    /\ queryset = << >>
    /\ page_number = NoPage
    /\ inflight = << >>
    /\ deleted = {}

NextRace ==
    \/ \E slot \in Slots, u \in Users, post_id \in PostIdInputs,
          comment_id \in CommentIdInputs, text \in TextInputs :
          EditCommentLoad(slot, u, post_id, comment_id, text)
    \/ \E slot \in Slots : EditCommentSave(slot)
    \/ \E slot \in Slots, u \in Users, post_id \in PostIdInputs,
          comment_id \in CommentIdInputs :
          DeleteCommentLoad(slot, u, post_id, comment_id)
    \/ \E slot \in Slots : DeleteCommentWrite(slot)

SpecRace == InitRace /\ [][NextRace]_vars

---------------------------------------------------------------------------
(* Properties of the pages that list and show posts (Spec)                 *)

\* is_published, category.is_published and pub_date <= now, as the claims
\* state the visibility predicate
IsVisible(p) ==
    /\ posts[p].is_published
    /\ posts[p].category \in DOMAIN categories
    /\ categories[posts[p].category]
    /\ posts[p].pub_date <= now

DigitChar(n) == CHOOSE c \in Digits : DigitValue(c) = n

\* ?page=n, for a page number of one digit
PageOf(n) == PageParam(<<DigitChar(n)>>)

\* the home listing, all pages taken together
HomeListing ==
    UNION { Pks(index(PageOf(n)).items) : n \in 1..index(NoPage).num_pages }

\* the profile listing of user U as requester R gets it, all pages together
ProfileListing(R, U) ==
    UNION { Pks(profile(R, users[U], PageOf(n)).items) :
              n \in 1..profile(R, users[U], NoPage).num_pages }

\* C1: in every reachable state the home listing holds exactly the posts that
\* are published, whose category is published and whose pub_date is not after
\* now; so a post with both flags set and a future pub_date is not listed
\* before the clock reaches its pub_date.
C1_HomeListingIsTheVisiblePosts ==
    /\ HomeListing \subseteq DOMAIN posts
    /\ \A p \in DOMAIN posts : p \in HomeListing <=> IsVisible(p)
    /\ \A p \in DOMAIN posts :
          ( /\ posts[p].is_published
            /\ posts[p].category \in DOMAIN categories
            /\ categories[posts[p].category]
            /\ posts[p].pub_date > now ) => p \notin HomeListing

\* a published post of a published category with a future pub_date is in the
\* store, and the home page just served does not list it
C1_Witness ==
    /\ response.view = "index"
    /\ response.kind = "render"
    /\ \E p \in DOMAIN posts :
          /\ posts[p].is_published
          /\ posts[p].category \in DOMAIN categories
          /\ categories[posts[p].category]
          /\ posts[p].pub_date > now
          /\ p \notin Pks(response.items)

\* C2: for every post P of the store and every viewer V, anonymous or not,
\* post_detail answers with P's detail page if V is P's author or P is
\* visible, and with the 404 page otherwise.
C2_DetailIffAuthorOrVisible ==
    \A p \in DOMAIN posts : \A v \in Requesters :
        IF v = posts[p].author \/ IsVisible(p)
        THEN /\ post_detail(v, p).kind = "render"
             /\ post_detail(v, p).name = "blog/detail.html"
             /\ post_detail(v, p).post_id = p
        ELSE /\ post_detail(v, p).kind = "notfound"
             /\ post_detail(v, p).name = "pages/404.html"

\* post_detail has just refused a post of the store that is not visible
C2_Witness ==
    /\ response.view = "post_detail"
    /\ response.kind = "notfound"
    /\ response.post_id \in DOMAIN posts
    /\ ~IsVisible(response.post_id)

\* C4: for every user U and every requester R, anonymous or not, the profile
\* listing of U is every post of U when R is U, and the visible posts of U
\* otherwise.
C4_ProfileListing ==
    \A U \in DOMAIN users : \A R \in Requesters :
        ProfileListing(R, U) =
            IF R = U
            THEN { p \in DOMAIN posts : posts[p].author = U }
            ELSE { p \in DOMAIN posts : posts[p].author = U /\ IsVisible(p) }

\* the profile page just served lists a post that is not visible (the
\* requester is its owner), and another requester's listing leaves it out
C4_Witness ==
    /\ response.view = "profile"
    /\ response.kind = "render"
    /\ \E p \in Pks(response.items) :
          /\ p \in DOMAIN posts
          /\ ~IsVisible(p)
          /\ response.username = users[posts[p].author]
          /\ p \notin ProfileListing(Anonymous, posts[p].author)

\* C7 as stated: a published post without a category whose pub_date is not
\* after now is publicly visible: it is in the home listing and its detail
\* page is served to a viewer who is not its author.
C7_NoCategoryPostIsPublic ==
    \A p \in DOMAIN posts :
        ( /\ posts[p].category = NoCategory
          /\ posts[p].is_published
          /\ posts[p].pub_date <= now )
        => /\ p \in HomeListing
           /\ \A v \in Requesters \ {posts[p].author} :
                 post_detail(v, p).kind = "render"

\* C7 amended: a post without a category is not publicly visible, whatever
\* its is_published and pub_date: it is not in the home listing, and its
\* detail page is served to its author only, every other viewer gets the 404.
C7_NoCategoryPostIsHidden ==
    \A p \in DOMAIN posts :
        posts[p].category = NoCategory
        => /\ p \notin HomeListing
           /\ p \notin filter_published_posts(AllPosts)
           /\ \A v \in Requesters \ {posts[p].author} :
                 post_detail(v, p).kind = "notfound"
           /\ post_detail(posts[p].author, p).kind = "render"

\* a published post without a category, its pub_date reached, is in the
\* store, and the home page just served does not list it
C7_Witness ==
    /\ response.view = "index"
    /\ response.kind = "render"
    /\ \E p \in DOMAIN posts :
          /\ posts[p].category = NoCategory
          /\ posts[p].is_published
          /\ posts[p].pub_date <= now
          /\ p \notin Pks(response.items)

---------------------------------------------------------------------------
(* Properties of the handlers that write (SpecAuth)                        *)

StoreKept(out) ==
    /\ out.posts = posts
    /\ out.comments = comments
    /\ out.users = users

IsDetailRedirect(r) == r.kind = "redirect" /\ r.name = "blog:post_detail"

IsLoginRedirect(r) == r.kind = "redirect" /\ r.name = "login"

IsCommentPage(r) == r.kind = "render" /\ r.name = "blog/comment.html"

\* C3: an edit or delete request, GET or POST, for a post or a comment by a
\* user who is not its author leaves the store as it is and is answered with
\* a redirect to a post detail page.
C3_NonAuthorChangesNothing ==
    /\ \A p \in DOMAIN posts : \A u \in Users \ {posts[p].author} :
         \A method \in Methods : \A form \in PostForms :
            /\ StoreKept(PostUpdateView(u, method, p, form))
            /\ IsDetailRedirect(PostUpdateView(u, method, p, form).response)
            /\ StoreKept(PostDeleteView(u, method, p))
            /\ IsDetailRedirect(PostDeleteView(u, method, p).response)
    /\ \A c \in DOMAIN comments : \A u \in Users \ {comments[c].author} :
         \A method \in Methods : \A post_id \in PostIdInputs :
            /\ \A text \in TextInputs :
                 /\ StoreKept(edit_comment(u, method, post_id, c, text))
                 /\ IsDetailRedirect(
                       edit_comment(u, method, post_id, c, text).response)
            /\ StoreKept(delete_comment(u, method, post_id, c))
            /\ IsDetailRedirect(delete_comment(u, method, post_id, c).response)

\* delete_comment has just answered with a redirect to a post detail page
\* and every comment ever created is still in the store: the request came
\* from a user who is not the author of the comment it named
C3_Witness ==
    /\ response.view = "delete_comment"
    /\ IsDetailRedirect(response)
    /\ nextComment > 1
    /\ DOMAIN comments = 1..(nextComment - 1)

\* C5: a request of an unauthenticated requester to post create, edit or
\* delete, to add_comment, edit_comment, delete_comment or edit_profile
\* leaves posts, comments and users as they are, and the one to post create
\* is answered with a redirect to login.
C5_AnonymousChangesNothing ==
    \A method \in Methods :
        /\ \A form \in PostForms :
              /\ StoreKept(PostCreateView(Anonymous, method, form))
              /\ IsLoginRedirect(PostCreateView(Anonymous, method, form).response)
              /\ \A post_id \in PostIdInputs :
                    StoreKept(PostUpdateView(Anonymous, method, post_id, form))
        /\ \A post_id \in PostIdInputs :
              /\ StoreKept(PostDeleteView(Anonymous, method, post_id))
              /\ \A text \in TextInputs :
                    /\ StoreKept(add_comment(Anonymous, method, post_id, text))
                    /\ \A comment_id \in CommentIdInputs :
                          StoreKept(edit_comment(Anonymous, method, post_id,
                                                 comment_id, text))
              /\ \A comment_id \in CommentIdInputs :
                    StoreKept(delete_comment(Anonymous, method, post_id,
                                             comment_id))
        /\ \A username \in UsernameInputs :
              StoreKept(edit_profile(Anonymous, method, username))

\* post create has just sent a requester to login (only an unauthenticated
\* one is sent there) and the store holds no post of that requester
C5_Witness ==
    /\ response.view = "PostCreateView"
    /\ IsLoginRedirect(response)
    /\ \A p \in DOMAIN posts : posts[p].author # Anonymous

\* C8 as stated: edit_comment and delete_comment, asked by a user who is not
\* the author of the comment, redirect to the detail page of the post of the
\* comment, whatever post_id the path gives.
C8_RedirectToOwningPost ==
    \A c \in DOMAIN comments : \A u \in Users \ {comments[c].author} :
      \A method \in Methods : \A post_id \in PostIdInputs :
        /\ \A text \in TextInputs :
              edit_comment(u, method, post_id, c, text).response
                 = redirect_post_detail(comments[c].post)
        /\ delete_comment(u, method, post_id, c).response
              = redirect_post_detail(comments[c].post)

\* C9 as stated: every edit_comment and delete_comment request of an
\* authenticated user for a comment of the store ends in a redirect to the
\* post detail view, whoever asks, GET or POST, form valid or not.
C9_AlwaysRedirects ==
    \A c \in DOMAIN comments : \A u \in Users :
      \A method \in Methods : \A post_id \in PostIdInputs :
        /\ \A text \in TextInputs :
              IsDetailRedirect(
                 edit_comment(u, method, post_id, c, text).response)
        /\ IsDetailRedirect(delete_comment(u, method, post_id, c).response)

\* C9 amended: such a request ends in a redirect to the post detail view
\* when the requester is not the author of the comment, and when the author
\* sends a POST (for edit_comment: with a valid form); the author's GET, and
\* the author's edit POST with an invalid form, are answered with the
\* blog/comment.html page and write nothing.
C9_RedirectsOrCommentPage ==
    \A c \in DOMAIN comments : \A u \in Users :
      \A method \in Methods : \A post_id \in PostIdInputs :
        /\ \A text \in TextInputs :
              LET out == edit_comment(u, method, post_id, c, text)
              IN  IF \/ u # comments[c].author
                     \/ method = "POST" /\ text # EmptyText
                  THEN IsDetailRedirect(out.response)
                  ELSE IsCommentPage(out.response) /\ StoreKept(out)
        /\ LET out == delete_comment(u, method, post_id, c)
           IN  IF u # comments[c].author \/ method = "POST"
               THEN IsDetailRedirect(out.response)
               ELSE IsCommentPage(out.response) /\ StoreKept(out)

\* edit_comment has just answered an authenticated request for a comment of
\* the store with the comment page, not with a redirect
C9_Witness ==
    /\ response.view = "edit_comment"
    /\ IsCommentPage(response)
    /\ comments # << >>

---------------------------------------------------------------------------
(* Properties of paginate_queryset (SpecPage)                              *)

Min(a, b) == IF a <= b THEN a ELSE b

\* the number of pages of size POSTS_PER_PAGE of the sequence, at least 1
LastPage == Max(1, (Len(queryset) + POSTS_PER_PAGE - 1) \div POSTS_PER_PAGE)

\* items (n - 1) * 10 + 1 .. min(n * 10, count) of the sequence 1..count
ItemsOfPage(n) ==
    [i \in 1..(Min(Len(queryset), n * POSTS_PER_PAGE)
                 - (n - 1) * POSTS_PER_PAGE) |-> (n - 1) * POSTS_PER_PAGE + i]

PageGiven(n) ==
    /\ response.kind = "render"
    /\ response.num_pages = LastPage
    /\ response.number = n
    /\ response.items = ItemsOfPage(n)

\* C6 as stated: paginate_queryset raises nothing and gives the page of the
\* requested number clamped to [1, L]: page 1 for a missing or non-numeric
\* value, page L for a value above L, page 1 for a value below 1.
C6_ClampedToRange ==
    response.view = "paginate_queryset" =>
        LET n == ParseInt(page_number)
        IN  IF ~n.ok THEN PageGiven(1)
            ELSE IF n.value > LastPage THEN PageGiven(LastPage)
            ELSE IF n.value < 1 THEN PageGiven(1)
            ELSE PageGiven(n.value)

\* C6 amended: paginate_queryset raises nothing and gives page 1 for a
\* missing or non-numeric value, the page of the number for a number in
\* [1, L], and the last page L for a number outside [1, L]: above L and
\* below 1 (0 or negative) alike.
C6_LastPageOutOfRange ==
    response.view = "paginate_queryset" =>
        /\ LET n == ParseInt(page_number)
           IN  IF ~n.ok THEN PageGiven(1)
               ELSE IF n.value > LastPage \/ n.value < 1
                    THEN PageGiven(LastPage)
               ELSE PageGiven(n.value)
        /\ ~page_number.present => PageGiven(1)
        /\ page_number = PageParam(<<>>) => PageGiven(1)
        /\ page_number = PageParam(<<"x">>) => PageGiven(1)
        /\ page_number = PageParam(<<"2", "x">>) => PageGiven(1)
        /\ page_number = PageParam(<<"-">>) => PageGiven(1)
        /\ page_number = PageParam(<<"0">>) => PageGiven(LastPage)
        /\ page_number = PageParam(<<"-", "1">>) => PageGiven(LastPage)
        /\ page_number = PageParam(<<"9", "9">>) => PageGiven(LastPage)
        /\ page_number = PageParam(<<"2">>) /\ Len(queryset) > POSTS_PER_PAGE
              => PageGiven(2)
        /\ page_number = PageParam(<<"1">>) => PageGiven(1)

\* page 0 was asked of a sequence of more than one page, and the page
\* given is the last one, not the first
C6_Witness ==
    /\ response.view = "paginate_queryset"
    /\ page_number = PageParam(<<"0">>)
    /\ Len(queryset) > POSTS_PER_PAGE
    /\ response.number = LastPage
    /\ response.number > 1
    /\ response.items # ItemsOfPage(1)

---------------------------------------------------------------------------
(* Properties of concurrent edit_comment and delete_comment (SpecRace)     *)

\* C10 as stated: once the delete step of delete_comment has completed, the
\* comment is absent from the store in every later state, and no request
\* ends in a server error.
C10_DeletedCommentStaysDeleted ==
    /\ \A c \in deleted : c \notin DOMAIN comments
    /\ response.kind \in {"none", "render", "redirect", "notfound"}

===========================================================================
